---- MODULE Spec2Model ----
(***************************************************************************)
(* Model of src/app.py: the WhisperSpeechToText class (record_audio,       *)
(* save_audio, transcribe_audio, start_continuous_recognition) and the     *)
(* menu loop of main().                                                    *)
(*                                                                         *)
(* The libraries the program calls (sounddevice, soundfile, tempfile, the  *)
(* Whisper model) are its environment: each call either raises or returns, *)
(* chosen nondeterministically.  An audio buffer is abstracted to its      *)
(* number of samples, a timestamp to a clock value with one-second         *)
(* resolution, a temporary file to its name.  A KeyboardInterrupt can      *)
(* arrive at every position of the program.                                *)
(*                                                                         *)
(* The locals of main() (choice, duration, audio_data, file_path,          *)
(* language, result) are dead once the code that reads them is past: every *)
(* branch assigns them before it reads them.  The model resets choice when *)
(* the if/elif chain has branched and the others when the loop is back at  *)
(* the menu prompt.                                                        *)
(***************************************************************************)
EXTENDS Integers, Sequences, FiniteSets

VARIABLES
  mode,        \* Session Loop state: which branch of main() is running
  pc,          \* position inside that branch
  choice,      \* the line read at the menu prompt, Some(line)
  duration,    \* duration / segment_duration, Some([num, den]) seconds
  audio_data,  \* the recorded buffer, Some(number of samples)
  file_path,   \* the path entered in branch '2'
  language,    \* the language of start_continuous_recognition
  call,        \* the arguments of the transcribe_audio call in progress
  audio_path,  \* transcribe_audio's audio_path: "temp", "file" or "none"
  result,      \* what transcribe_audio returned
  fs,          \* the user's files that exist (os.path.exists)
  recordings,  \* recording_<timestamp>.wav files written by save_audio
  now,         \* datetime.now(), in whole seconds
  tempfiles,   \* files created by tempfile.NamedTemporaryFile(delete=False)
  printed,     \* the lines printed by the last step
  ops,         \* operations done for the current menu request / iteration
  exit_cause,  \* "running", "exit", or the exception that ended the process
  completed    \* buffer-based transcribe_audio calls that reached the model

vars == <<mode, pc, choice, duration, audio_data, file_path, language, call,
          audio_path, result, fs, recordings, now, tempfiles, printed, ops,
          exit_cause, completed>>

(***************************************************************************)
(* Bounds                                                                  *)
(***************************************************************************)
MaxInputLen == 2   \* longest line typed at a prompt
MaxClock == 1      \* last clock value
MaxTemp == 2       \* temporary file names available
MaxSegs == 1       \* most segments the model yields for one call
MaxNum == 12       \* largest numerator of a duration given to record_audio

(***************************************************************************)
(* Program constants                                                       *)
(***************************************************************************)
sample_rate == 16000
segment_duration == 5

(***************************************************************************)
(* Values                                                                  *)
(***************************************************************************)
None == <<>>
Some(x) == <<x>>

Chars == {"0", "1", "2", "3", "4", "-", " ", "a"}
Inputs == UNION {[1..n -> Chars] : n \in 0..MaxInputLen}

UserFiles == {<<"a">>}
TempNames == 1..MaxTemp
Dens == {1, 3, 7, 32000}
Durations == [num : (-MaxNum)..MaxNum, den : Dens]

Whole(n) == [num |-> n, den |-> 1]

NoCall == [audio_data |-> None, audio_file |-> None, language |-> None]
NoResult == [type |-> "none", segments |-> 0, error |-> ""]
Dict(n) == [type |-> "dict", segments |-> n, error |-> ""]
Str(e) == [type |-> "str", segments |-> 0, error |-> e]

MenuMsg == "Speech to Text Options:"
InvalidMsg == "Invalid choice. Please try again."
NotFoundMsg == "File not found!"
StoppingMsg == "Stopping continuous recognition..."
ExitMsg == "Exiting..."

(***************************************************************************)
(* str.strip() and int(str) on a line of input                             *)
(***************************************************************************)
IsSpace(c) == c = " "
IsDigit(c) == c \in {"0", "1", "2", "3", "4"}
DigitVal(c) == CASE c = "0" -> 0 [] c = "1" -> 1 [] c = "2" -> 2
                 [] c = "3" -> 3 [] c = "4" -> 4

RECURSIVE LStrip(_)
LStrip(s) == IF s # <<>> /\ IsSpace(Head(s)) THEN LStrip(Tail(s)) ELSE s

RECURSIVE RStrip(_)
RStrip(s) == IF s # <<>> /\ IsSpace(s[Len(s)])
             THEN RStrip(SubSeq(s, 1, Len(s) - 1)) ELSE s

Strip(s) == RStrip(LStrip(s))

RECURSIVE Decimal(_)
Decimal(ds) == IF ds = <<>> THEN 0
               ELSE 10 * Decimal(SubSeq(ds, 1, Len(ds) - 1))
                    + DigitVal(ds[Len(ds)])

Negative(s) == Strip(s) # <<>> /\ Head(Strip(s)) = "-"
Digits(s) == IF Negative(s) THEN Tail(Strip(s)) ELSE Strip(s)

\* int(s) raises ValueError unless s is an optionally signed digit string
IsInt(s) == /\ Digits(s) # <<>>
            /\ \A i \in 1..Len(Digits(s)) : IsDigit(Digits(s)[i])
ParseInt(s) == IF Negative(s) THEN 0 - Decimal(Digits(s))
               ELSE Decimal(Digits(s))

(***************************************************************************)
(* int(duration * self.sample_rate): truncation toward zero                *)
(***************************************************************************)
Trunc(a, b) == IF a >= 0 THEN a \div b ELSE 0 - ((0 - a) \div b)
Frames_Ceil(d) == 0 - ((0 - d.num * sample_rate) \div d.den)
Frames(d) == Trunc(d.num * sample_rate, d.den)

Exists_Always(p) == TRUE
Exists(p) == p \in fs

SegLines(n) == [i \in 1..n |-> "segment"]

(***************************************************************************)
(* Init: main() has built the WhisperSpeechToText and shows the menu       *)
(***************************************************************************)
Init ==
  /\ mode = "MENU"
  /\ pc = "menu"
  /\ choice = None
  /\ duration = None
  /\ audio_data = None
  /\ file_path = None
  /\ language = None
  /\ call = NoCall
  /\ audio_path = "none"
  /\ result = NoResult
  /\ fs \in SUBSET UserFiles
  /\ recordings = {}
  /\ now = 0
  /\ tempfiles = {}
  /\ printed = <<MenuMsg>>
  /\ ops = <<>>
  /\ exit_cause = "running"
  /\ completed = 0

Env == <<fs, recordings, now, tempfiles, completed>>
Locals == <<duration, audio_data, file_path, language, call, audio_path,
            result>>

\* the while loop of main() comes round to the menu prompt
ReturnToMenu(msgs) ==
  /\ mode' = "MENU"
  /\ pc' = "menu"
  /\ duration' = None
  /\ audio_data' = None
  /\ file_path' = None
  /\ language' = None
  /\ call' = NoCall
  /\ audio_path' = "none"
  /\ result' = NoResult
  /\ printed' = msgs \o <<MenuMsg>>
  /\ exit_cause' = "running"

\* an exception nothing catches ends the process with a traceback; the
\* locals go with the process
Abort(cause, msgs) ==
  /\ mode' = "ABORTED"
  /\ pc' = "done"
  /\ exit_cause' = cause
  /\ printed' = msgs
  /\ choice' = None
  /\ duration' = None
  /\ audio_data' = None
  /\ file_path' = None
  /\ language' = None
  /\ call' = NoCall
  /\ audio_path' = "none"
  /\ result' = NoResult

(***************************************************************************)
(* main(): the menu                                                        *)
(***************************************************************************)
\* choice == '1': the typed line compared as it is
Is_Stripped(line, c) == Strip(line) = <<c>>
Is(line, c) == line = <<c>>

\* print("Exiting..."); break
ExitChoice_NoBreak == ReturnToMenu(<<ExitMsg>>)
ExitChoice ==
  /\ mode' = "EXIT" /\ pc' = "done"
  /\ printed' = <<ExitMsg>> /\ exit_cause' = "exit"
  /\ UNCHANGED Locals

Dispatch(line) ==
  IF Is(line, "1") THEN
    /\ mode' = "RECORD_ONE_SHOT" /\ pc' = "dur_prompt"
    /\ printed' = <<>> /\ exit_cause' = "running"
    /\ UNCHANGED Locals
  ELSE IF Is(line, "2") THEN
    /\ mode' = "TRANSCRIBE_FILE" /\ pc' = "path_prompt"
    /\ printed' = <<>> /\ exit_cause' = "running"
    /\ UNCHANGED Locals
  ELSE IF Is(line, "3") THEN
    /\ mode' = "CONTINUOUS" /\ pc' = "lang_prompt"
    /\ printed' = <<>> /\ exit_cause' = "running"
    /\ UNCHANGED Locals
  ELSE IF Is(line, "4") THEN ExitChoice
  ELSE ReturnToMenu(<<InvalidMsg>>)

\* choice = input("Enter your choice (1-4): ")
ReadChoice ==
  /\ mode = "MENU" /\ pc = "menu"
  /\ \E line \in Inputs : choice' = Some(line)
  /\ pc' = "dispatch"
  /\ printed' = <<>>
  /\ ops' = <<>>
  /\ UNCHANGED <<mode, Locals, exit_cause, Env>>

\* the if/elif/else chain on choice
Choose ==
  /\ mode = "MENU" /\ pc = "dispatch"
  /\ Dispatch(choice[1])
  /\ choice' = None
  /\ UNCHANGED <<ops, Env>>

\* duration = int(input(...))
EnterDuration ==
  /\ mode = "RECORD_ONE_SHOT" /\ pc = "dur_prompt"
  /\ \E s \in Inputs :
       IF IsInt(s)
       THEN /\ duration' = Some(Whole(ParseInt(s)))
            /\ pc' = "record"
            /\ printed' = <<>>
            /\ UNCHANGED <<mode, choice, audio_data, file_path, language,
                           call, audio_path, result, exit_cause>>
       ELSE Abort("ValueError", <<>>)
  /\ UNCHANGED <<ops, Env>>

(***************************************************************************)
(* record_audio(duration)                                                  *)
(* sd.rec(frames) allocates the buffer before it opens the device: a       *)
(* negative frame count raises there, a count >= 0 opens the input stream, *)
(* which fails or delivers that many samples.                              *)
(***************************************************************************)
AfterRecord == IF mode = "CONTINUOUS" THEN "transcribe" ELSE "save"

RecordAudio ==
  /\ mode \in {"RECORD_ONE_SHOT", "CONTINUOUS"} /\ pc = "record"
  /\ LET frames == Frames(duration[1]) IN
       IF frames < 0
       THEN /\ Abort("ValueError", <<"Recording for">>)
            /\ UNCHANGED ops
       ELSE \/ /\ Abort("PortAudioError", <<"Recording for">>)
               /\ UNCHANGED ops
            \/ /\ audio_data' = Some(frames)
               /\ pc' = AfterRecord
               /\ printed' = <<"Recording for", "Recording finished!">>
               /\ ops' = IF mode = "CONTINUOUS" THEN <<"record">>
                         ELSE Append(ops, "record")
               /\ UNCHANGED <<mode, choice, duration, file_path, language,
                              call, audio_path, result, exit_cause>>
  /\ UNCHANGED Env

(***************************************************************************)
(* filename = stt.save_audio(audio_data): timestamped name, sf.write       *)
(***************************************************************************)
SaveAudio ==
  /\ mode = "RECORD_ONE_SHOT" /\ pc = "save"
  /\ \/ \E t \in now..MaxClock :
          /\ now' = t
          /\ recordings' = recordings \cup {t}
          /\ pc' = "transcribe"
          /\ printed' = <<"Saved recording to">>
          /\ ops' = Append(ops, "save")
          /\ UNCHANGED <<mode, choice, Locals, exit_cause>>
     \/ /\ Abort("IOError", <<>>)
        /\ UNCHANGED <<now, recordings, ops>>
  /\ UNCHANGED <<fs, tempfiles, completed>>

(***************************************************************************)
(* transcribe_audio, lines 60-72: bind the arguments, write the buffer to  *)
(* a new temporary file or take the path                                   *)
(***************************************************************************)
ArgAudioData == IF mode \in {"RECORD_ONE_SHOT", "CONTINUOUS"}
                THEN audio_data ELSE None
ArgAudioFile == IF mode = "TRANSCRIBE_FILE" THEN file_path ELSE None
ArgLanguage == IF mode = "CONTINUOUS" THEN language ELSE None

\* NamedTemporaryFile creates a file no existing file has the name of
NewTempNames_Reuse == TempNames
NewTempNames == TempNames \ tempfiles

TranscribeBegin ==
  /\ mode \in {"RECORD_ONE_SHOT", "TRANSCRIBE_FILE", "CONTINUOUS"}
  /\ pc = "transcribe"
  /\ call' = [audio_data |-> ArgAudioData, audio_file |-> ArgAudioFile,
              language |-> ArgLanguage]
  /\ ops' = Append(ops, "transcribe")
  /\ printed' = <<>>
  /\ IF ArgAudioData # None
     THEN \/ \* NamedTemporaryFile raises
             /\ result' = Str("Transcription error: tempfile")
             /\ pc' = "print"
             /\ UNCHANGED <<tempfiles, audio_path>>
          \/ \E f \in NewTempNames :
               /\ tempfiles' = tempfiles \cup {f}
               /\ \/ /\ audio_path' = "temp"
                     /\ pc' = "t_model"
                     /\ UNCHANGED result
                  \/ \* save_audio raises, the file stays
                     /\ result' = Str("Transcription error: write")
                     /\ pc' = "print"
                     /\ UNCHANGED audio_path
     ELSE /\ audio_path' = IF ArgAudioFile # None THEN "file" ELSE "none"
          /\ pc' = "t_model"
          /\ UNCHANGED <<tempfiles, result>>
  /\ UNCHANGED <<mode, choice, duration, audio_data, file_path, language,
                 exit_cause, fs, recordings, now, completed>>

(***************************************************************************)
(* transcribe_audio, lines 75-101: the model call, the segment loop, the   *)
(* returned dict; except Exception returns the message                     *)
(***************************************************************************)
ModelRaised_Uncaught ==
  /\ mode' = "ABORTED" /\ pc' = "done" /\ exit_cause' = "RuntimeError"
  /\ UNCHANGED result

\* except Exception as e: return f"Transcription error: {str(e)}"
ModelRaised ==
  /\ result' = Str("Transcription error: model")
  /\ pc' = "print"
  /\ UNCHANGED <<mode, exit_cause>>

ModelTranscribe ==
  /\ mode \in {"RECORD_ONE_SHOT", "TRANSCRIBE_FILE", "CONTINUOUS"}
  /\ pc = "t_model"
  /\ \/ /\ audio_path # "none"
        /\ \E n \in 0..MaxSegs : result' = Dict(n)
        /\ pc' = "print"
        /\ UNCHANGED <<mode, exit_cause>>
     \/ ModelRaised
  /\ printed' = <<>>
  /\ completed' = IF call.audio_data # None THEN completed + 1
                  ELSE completed
  /\ UNCHANGED <<choice, duration, audio_data, file_path, language, call,
                 audio_path, ops, fs, recordings, now, tempfiles>>

(***************************************************************************)
(* if isinstance(result, dict): print the segments, else print the error   *)
(***************************************************************************)
ResultLines ==
  IF result.type = "dict"
  THEN IF mode = "CONTINUOUS" THEN SegLines(result.segments)
       ELSE <<"Transcription:">> \o SegLines(result.segments)
            \o <<"Detected language:">>
  ELSE <<result.error>>

PrintResult ==
  /\ mode \in {"RECORD_ONE_SHOT", "TRANSCRIBE_FILE", "CONTINUOUS"}
  /\ pc = "print"
  /\ ops' = Append(ops, "print")
  /\ IF mode = "CONTINUOUS"
     THEN /\ pc' = "record"
          /\ printed' = ResultLines
          /\ UNCHANGED <<mode, Locals, exit_cause>>
     ELSE ReturnToMenu(ResultLines)
  /\ UNCHANGED <<choice, Env>>

(***************************************************************************)
(* main(), choice '2': the path prompt and os.path.exists                  *)
(***************************************************************************)
EnterPath ==
  /\ mode = "TRANSCRIBE_FILE" /\ pc = "path_prompt"
  /\ \E s \in Inputs :
       IF Exists(s)
       THEN /\ file_path' = Some(s)
            /\ pc' = "transcribe"
            /\ printed' = <<>>
            /\ UNCHANGED <<mode, duration, audio_data, language, call,
                           audio_path, result, exit_cause>>
       ELSE ReturnToMenu(<<NotFoundMsg>>)
  /\ UNCHANGED <<choice, ops, Env>>

(***************************************************************************)
(* main(), choice '3': language = input(...).strip() or None, then         *)
(* start_continuous_recognition(language=language) up to its try           *)
(***************************************************************************)
EnterLanguage ==
  /\ mode = "CONTINUOUS" /\ pc = "lang_prompt"
  /\ \E s \in Inputs :
       language' = IF Strip(s) = <<>> THEN None ELSE Some(Strip(s))
  /\ duration' = Some(Whole(segment_duration))
  /\ pc' = "record"
  /\ printed' = <<"Starting continuous recognition...">>
  /\ UNCHANGED <<mode, choice, audio_data, file_path, call, audio_path,
                 result, exit_cause, ops, Env>>

(***************************************************************************)
(* KeyboardInterrupt.  Only the try of start_continuous_recognition has an *)
(* except KeyboardInterrupt; except Exception in transcribe_audio does not *)
(* catch it.  An interrupt inside the with block of transcribe_audio may   *)
(* come after the temporary file was created.                              *)
(***************************************************************************)
InLoopTry == mode = "CONTINUOUS"
             /\ pc \in {"record", "transcribe", "t_model", "print"}

Interrupt ==
  /\ mode \in {"MENU", "RECORD_ONE_SHOT", "TRANSCRIBE_FILE", "CONTINUOUS"}
  /\ IF InLoopTry THEN ReturnToMenu(<<StoppingMsg>>) /\ UNCHANGED choice
     ELSE Abort("KeyboardInterrupt", <<>>)
  /\ \/ UNCHANGED tempfiles
     \/ /\ pc = "transcribe" /\ ArgAudioData # None
        /\ \E f \in NewTempNames : tempfiles' = tempfiles \cup {f}
  /\ UNCHANGED <<ops, fs, recordings, now, completed>>

Next ==
  \/ ReadChoice
  \/ Choose
  \/ EnterDuration
  \/ RecordAudio
  \/ SaveAudio
  \/ TranscribeBegin
  \/ ModelTranscribe
  \/ PrintResult
  \/ EnterPath
  \/ EnterLanguage
  \/ Interrupt

Spec == Init /\ [][Next]_vars

(***************************************************************************)
(* transcribe_audio called directly: with a buffer, with a path, or with   *)
(* neither (both parameters left at None), then the program as above       *)
(***************************************************************************)
CallInit ==
  /\ pc = "transcribe"
  /\ \/ /\ mode = "RECORD_ONE_SHOT"
        /\ audio_data \in {None, Some(0), Some(sample_rate)}
        /\ file_path = None
     \/ /\ mode = "TRANSCRIBE_FILE"
        /\ audio_data = None
        /\ file_path \in {None} \cup {Some(p) : p \in UserFiles}
  /\ choice = None
  /\ duration = None
  /\ language = None
  /\ call = NoCall
  /\ audio_path = "none"
  /\ result = NoResult
  /\ fs \in SUBSET UserFiles
  /\ recordings = {}
  /\ now = 0
  /\ tempfiles = {}
  /\ printed = <<>>
  /\ ops = <<>>
  /\ exit_cause = "running"
  /\ completed = 0

InitTranscribe == Init \/ CallInit

SpecTranscribe == InitTranscribe /\ [][Next]_vars

(***************************************************************************)
(* record_audio called directly with a whole or fractional duration        *)
(***************************************************************************)
InitRecord ==
  /\ mode = "RECORD_ONE_SHOT"
  /\ pc = "record"
  /\ choice = None
  /\ duration \in {Some(d) : d \in Durations}
  /\ audio_data = None
  /\ file_path = None
  /\ language = None
  /\ call = NoCall
  /\ audio_path = "none"
  /\ result = NoResult
  /\ fs = {}
  /\ recordings = {}
  /\ now = 0
  /\ tempfiles = {}
  /\ printed = <<>>
  /\ ops = <<>>
  /\ exit_cause = "running"
  /\ completed = 0

NextRecord == RecordAudio

SpecRecord == InitRecord /\ [][NextRecord]_vars

(***************************************************************************)
(* Properties                                                              *)
(***************************************************************************)
InTranscribe == pc \in {"transcribe", "t_model"}
OneShotOrFile == mode \in {"RECORD_ONE_SHOT", "TRANSCRIBE_FILE"}

\* C1 (as amended): whatever transcribe_audio is given (buffer, path or
\* neither) and whichever of temp-file creation, saving, the model call or
\* the segment loop fails, a step of transcribe_audio that is not an
\* interrupt never ends the process; the call returns a dict or a string,
\* which the caller tells apart by type; the caller then prints it and is
\* back in MENU from RECORD_ONE_SHOT and TRANSCRIBE_FILE, and records the
\* next segment in CONTINUOUS.
C1_ReturnsValueThenMenuOrNextSegment ==
  [][~Interrupt =>
       /\ InTranscribe =>
            /\ mode' = mode
            /\ pc' \in {"t_model", "print"}
            /\ pc' = "print" =>
                 /\ result'.type \in {"dict", "str"}
                 /\ result'.type = "str" <=> result'.error # ""
       /\ pc = "print" =>
            IF mode = "CONTINUOUS" THEN mode' = mode /\ pc' = "record"
            ELSE mode' = "MENU"]_vars

\* C1 witness: a call given neither a buffer nor a path has returned an
\* error string
C1_Witness ==
  /\ pc = "print"
  /\ call.audio_data = None /\ call.audio_file = None
  /\ result.type = "str"

\* C1 (original): ... and after the call the Session Loop is back in MENU,
\* whichever state made the call
C1_Original ==
  [][~Interrupt =>
       /\ InTranscribe =>
            /\ mode' = mode
            /\ pc' \in {"t_model", "print"}
            /\ pc' = "print" => result'.type \in {"dict", "str"}
       /\ pc = "print" => mode' = "MENU"]_vars

\* C2 (the claim): the process stops only through the exit choice or an
\* interrupt signal; no other error (bad numeric input, capture or save
\* failure) ends it
C2_OnlyExitOrInterruptStops ==
  pc = "done" => exit_cause \in {"exit", "KeyboardInterrupt"}

\* C3 (the claim): an interrupt received anywhere in CONTINUOUS, the
\* language prompt included, returns to MENU and does not end the process
C3_InterruptReturnsToMenu ==
  [][(mode = "CONTINUOUS" /\ Interrupt) => mode' = "MENU"]_vars

\* C4: RECORD_ONE_SHOT, TRANSCRIBE_FILE, CONTINUOUS and EXIT are entered
\* from MENU only; a step that leaves one of the three working states
\* without ending the process on an uncaught exception goes to MENU; the
\* print that completes RECORD_ONE_SHOT or TRANSCRIBE_FILE goes to MENU;
\* choice 4 goes to EXIT with a normal end, and nothing happens after EXIT.
C4_StateMachine ==
  [][/\ (mode' # mode /\ mode' \in {"RECORD_ONE_SHOT", "TRANSCRIBE_FILE",
                                    "CONTINUOUS", "EXIT"})
          => mode = "MENU"
     /\ (mode \in {"RECORD_ONE_SHOT", "TRANSCRIBE_FILE", "CONTINUOUS"}
         /\ mode' # mode)
          => mode' \in {"MENU", "ABORTED"}
     /\ (OneShotOrFile /\ pc = "print" /\ ~Interrupt) => mode' = "MENU"
     /\ (pc = "dispatch" /\ choice = Some(<<"4">>) /\ ~Interrupt)
          => (mode' = "EXIT" /\ pc' = "done" /\ exit_cause' = "exit")
     /\ mode' = "EXIT" => exit_cause' = "exit"
     /\ mode = "EXIT" => UNCHANGED vars]_vars

\* C4 witness: the process has exited after a buffer was transcribed
C4_Witness == mode = "EXIT" /\ exit_cause = "exit" /\ completed > 0

\* C5: on every menu line other than '1', '2', '3', '4' the loop prints the
\* invalid-choice message and is at the menu again: nothing recorded, saved
\* or transcribed, no file created, no exception
ValidChoices == {<<"1">>, <<"2">>, <<"3">>, <<"4">>}

C5_InvalidChoiceStaysInMenu ==
  [][(pc = "dispatch" /\ choice[1] \notin ValidChoices /\ ~Interrupt)
       =>
          /\ mode' = "MENU" /\ pc' = "menu"
          /\ printed' = <<InvalidMsg, MenuMsg>>
          /\ exit_cause' = "running"
          /\ ops' = <<>>
          /\ audio_data' = None /\ result' = NoResult /\ call' = NoCall
          /\ UNCHANGED <<fs, recordings, now, tempfiles, completed>>]_vars

\* C5 witness: the menu prompt again, the invalid-choice message printed
C5_Witness ==
  /\ pc = "menu"
  /\ mode = "MENU" /\ printed = <<InvalidMsg, MenuMsg>> /\ ops = <<>>

\* C6: at the path prompt a path that does not exist gives "File not
\* found!" and the menu, with no transcribe_audio call; transcribe_audio
\* gets a path only when that path passed os.path.exists
C6_MissingFileNotTranscribed ==
  /\ [][(mode = "TRANSCRIBE_FILE" /\ pc = "path_prompt" /\ ~Interrupt) =>
          \/ /\ pc' = "transcribe" /\ file_path' # None
             /\ file_path'[1] \in fs
          \/ /\ mode' = "MENU" /\ printed' = <<NotFoundMsg, MenuMsg>>
             /\ ops' = <<>> /\ call' = NoCall
             /\ exit_cause' = "running"
             /\ UNCHANGED <<fs, recordings, now, tempfiles, completed>>]_vars
  /\ [](call.audio_file # None => call.audio_file[1] \in fs)

\* C6 witness: the menu again, after "File not found!", nothing called
C6_Witness ==
  mode = "MENU" /\ printed = <<NotFoundMsg, MenuMsg>> /\ ops = <<>>

\* C7 (the claim): for a duration <= 0 no recording is opened, no buffer
\* is returned, and nothing is saved or transcribed
C7_NonPositiveDurationRejected ==
  (duration # None /\ duration[1].num <= 0) =>
     /\ audio_data = None
     /\ ops = <<>>

C9_ContinuousLeftOnlyByInterrupt ==
  [][(mode = "CONTINUOUS" /\ pc # "lang_prompt") =>
       /\ mode' = "CONTINUOUS" => language' = language
       /\ (pc = "transcribe" /\ ~Interrupt) =>
             (ops = <<"record">> /\ call'.language = language
              /\ call'.audio_data = audio_data)
       /\ (pc = "print" /\ ~Interrupt) =>
             /\ mode' = "CONTINUOUS" /\ pc' = "record"
             /\ ops' = <<"record", "transcribe", "print">>
             /\ printed' = ResultLines
       /\ mode' # "CONTINUOUS" => Interrupt]_vars

\* C10: temporary files are only added; a transcribe_audio call given a
\* buffer that gets as far as the model has created exactly one file that
\* did not exist before; the files are never fewer than the buffer-based
\* transcriptions that reached the model
C10_TempFilesOnlyGrow ==
  /\ [][/\ tempfiles \subseteq tempfiles'
        /\ (pc = "transcribe" /\ pc' = "t_model"
            /\ call'.audio_data # None) =>
              /\ Cardinality(tempfiles') = Cardinality(tempfiles) + 1
              /\ audio_path' = "temp"]_vars
  /\ [](Cardinality(tempfiles) >= completed)

\* C10 witness: CONTINUOUS has transcribed two segments and left two files
C10_Witness ==
  /\ mode = "CONTINUOUS" /\ pc = "record"
  /\ completed = 2 /\ Cardinality(tempfiles) = 2

====
